---- MODULE Spec2Model ----
(***************************************************************************)
(* Neuron pruning during NMT training (cam/sgnmt/blocks/pruning.py) and    *)
(* the SRILM n-gram predictor (cam/sgnmt/predictors/ngram.py).             *)
(*                                                                         *)
(* Numbers.  The program works on floating point arrays.  Here activation  *)
(* values are small integers and the accumulators `dists' and `activities' *)
(* are exact rationals: a layer's field `scale' is the common denominator  *)
(* of both arrays, so the program's value is entry / scale.  In-place      *)
(* division by n_obs multiplies `scale'; adding a batch contribution c     *)
(* adds c * scale to the entry.  None is the empty tuple.                  *)
(***************************************************************************)
EXTENDS Integers, Sequences, FiniteSets, TLC

VARIABLES
    prunable_layers,      \* PruningGradientDescent.prunable_layers: 0..L-1 -> layer
    params_dict,          \* parameter store: matrix name -> matrix
    n_batches,            \* PruningGradientDescent.n_batches
    next_layer_to_prune,  \* round-robin cursor of prune events
    next_layer_to_reset,  \* round-robin cursor of reset events
    prune_every,          \* configuration, fixed at construction
    prune_reset_every,    \* configuration, fixed at construction
    inputs,               \* PruningGradientDescent.inputs, None until initialize
    last,                 \* what the last call did (the program's log lines)
    prune_calls,          \* layer -> prune calls process_batch made on it,
                          \* counted up to n_steps + 1
    predictor,            \* the SRILMPredictor object: attribute -> value
    consumed,             \* arguments of consume since the last initialize
    query,                \* the getNgramProb calls of the last predictor call
    held,                 \* the history list the decoder holds a reference to
    plain                 \* initialize has run and set_state has not since

vars == <<prunable_layers, params_dict, n_batches, next_layer_to_prune,
          next_layer_to_reset, prune_every, prune_reset_every, inputs, last,
          prune_calls, predictor, consumed, query, held, plain>>

driver_vars == <<n_batches, next_layer_to_prune, next_layer_to_reset,
                 prune_every, prune_reset_every, inputs>>

pruning_vars == <<prunable_layers, params_dict, driver_vars, last, prune_calls>>

ngram_vars == <<predictor, consumed, query, held, plain>>

-----------------------------------------------------------------------------
(* Bounds of the model *)

\* Register calls are accepted while a layer holds at most this many
\* observations since its last reset.
MaxObs == 3

\* Batches the driver processes.
MaxBatches == 6

\* Orders of the language models the predictor is constructed with.
MaxOrder == 3

\* Consume calls between two initialize calls.
MaxConsumed == 3

-----------------------------------------------------------------------------
(* Constants and small helpers *)

INF_DIST == 10000

None == <<>>

Min(a, b) == IF a < b THEN a ELSE b

Abs(a) == IF a < 0 THEN -a ELSE a

RECURSIVE SumTo(_, _)
\* f[1] + ... + f[n]
SumTo(f, n) == IF n = 0 THEN 0 ELSE f[n] + SumTo(f, n - 1)

Range(s) == {s[k] : k \in 1..Len(s)}

\* int(): truncation towards zero of the quotient a / b, b > 0
IntDiv(a, b) == IF a >= 0 THEN a \div b ELSE -((-a) \div b)

-----------------------------------------------------------------------------
(* Weight matrices: [shape, val], val maps index tuples to numbers *)

Mat1(n) ==
    [shape |-> <<n>>, val |-> [p \in {<<i>> : i \in 0..(n - 1)} |-> p[1] + 1]]

Mat2(r, c) ==
    [shape |-> <<r, c>>,
     val |-> [p \in (0..(r - 1)) \X (0..(c - 1)) |-> p[1] * c + p[2] + 1]]

set_zero_in_mat(mat, dim, idx) ==
    IF Len(mat.shape) = 1
    THEN [mat EXCEPT !.val = [p \in DOMAIN @ |-> IF p[1] = idx THEN 0 ELSE @[p]]]
    ELSE IF dim = 0
    THEN [mat EXCEPT !.val = [p \in DOMAIN @ |-> IF p[1] = idx THEN 0 ELSE @[p]]]
    ELSE IF dim = 1
    THEN [mat EXCEPT !.val = [p \in DOMAIN @ |-> IF p[2] = idx THEN 0 ELSE @[p]]]
    ELSE mat

Connection(direction, mat_name, dim, start_idx) ==
    [direction |-> direction, mat_name |-> mat_name, dim |-> dim,
     start_idx |-> start_idx]

\* int(mat.shape[conn.dim] * conn.start_idx), start_idx = <<num, den>>
ConnOffset(mat, conn) ==
    IF conn.start_idx[1] > 0
    THEN IntDiv(mat.shape[conn.dim + 1] * conn.start_idx[1], conn.start_idx[2])
    ELSE 0

-----------------------------------------------------------------------------
(* PrunableLayer *)

PrunableLayer(name, width, trg_size, n_steps, maxout, connections) ==
    [name |-> name,
     width |-> width,          \* features of theano_variable
     dists |-> None,
     activities |-> None,
     scale |-> 1,
     mask |-> None,
     n_obs |-> 0,
     trg_size |-> trg_size,
     n_steps |-> n_steps,
     step_size |-> 0,          \* not set before the first prune
     connections |-> connections,
     pruned_neurons |-> <<>>,
     obs |-> <<>>,
     maxout |-> maxout]

\* the mutant forgets the pruned neurons too
reset_all(layer) ==
    [layer EXCEPT !.dists = None, !.activities = None, !.scale = 1,
                  !.n_obs = 0, !.obs = <<>>, !.pruned_neurons = <<>>]

\* the mutant leaves the stored observations
reset_keep_obs(layer) ==
    [layer EXCEPT !.dists = None, !.activities = None, !.scale = 1, !.n_obs = 0]

reset(layer) ==
    [layer EXCEPT !.dists = None, !.activities = None, !.scale = 1,
                  !.n_obs = 0, !.obs = <<>>]

\* np.triu(INF_DIST * np.ones_like(dists)): zero strictly below the diagonal
initialize_mask(layer) ==
    [layer EXCEPT !.mask = [p \in DOMAIN layer.dists |->
                                IF p[1] <= p[2] THEN INF_DIST ELSE 0]]

\* mask.shape[0]
get_size(layer) == Cardinality({p[1] : p \in DOMAIN layer.mask})

\* the mutant rounds the quotient down and adds nothing
derive_step_size_floor(layer) ==
    [layer EXCEPT !.step_size =
        IntDiv(get_size(layer) - layer.trg_size, layer.n_steps)]

derive_step_size(layer) ==
    [layer EXCEPT !.step_size =
        IntDiv(get_size(layer) - layer.trg_size, layer.n_steps) + 1]

count_unpruned_neurons(layer) == get_size(layer) - Len(layer.pruned_neurons)

\* x = activity.reshape((-1, activity.shape[-1])).transpose():
\* activity is a sequence of observations, x[i][k] = activity[k][i]
pt_sq_norms(activity) ==
    [i \in DOMAIN activity[1] |->
        SumTo([k \in 1..Len(activity) |-> activity[k][i] * activity[k][i]],
              Len(activity))]

dists_sq(activity) ==
    [p \in (DOMAIN activity[1]) \X (DOMAIN activity[1]) |->
        (-2) * SumTo([k \in 1..Len(activity) |->
                          activity[k][p[1]] * activity[k][p[2]]], Len(activity))
        + pt_sq_norms(activity)[p[1]] + pt_sq_norms(activity)[p[2]]]

register_activities(layer, activity) ==
    IF layer.dists = None
    THEN [layer EXCEPT !.obs = Append(@, activity),
                       !.dists = dists_sq(activity),
                       !.activities = pt_sq_norms(activity),
                       !.scale = 1,
                       !.n_obs = @ + Len(activity)]
    ELSE [layer EXCEPT !.obs = Append(@, activity),
                       !.dists = [p \in DOMAIN @ |->
                                     @[p] + layer.scale * dists_sq(activity)[p]],
                       !.activities = [i \in DOMAIN @ |->
                                     @[i] + layer.scale * pt_sq_norms(activity)[i]],
                       !.n_obs = @ + Len(activity)]

-----------------------------------------------------------------------------
(* prune: selection *)

prepare(layer) ==
    IF layer.mask = None THEN derive_step_size(initialize_mask(layer)) ELSE layer

\* the mutant ignores the target size
n_to_delete_step_only(layer) == layer.step_size

n_to_delete(layer) ==
    Min(count_unpruned_neurons(layer) - layer.trg_size, layer.step_size)

\* self.activities /= self.n_obs; self.dists /= self.n_obs (in place)
normalize(layer) == [layer EXCEPT !.scale = @ * layer.n_obs]

_get_activity_discounts_sum(layer) ==
    [p \in DOMAIN layer.dists |-> layer.activities[p[1]] + layer.activities[p[2]]]

_get_activity_discounts_min(layer) ==
    [p \in DOMAIN layer.dists |->
        Min(layer.activities[p[1]], layer.activities[p[2]])]

get_activity_discounts(layer) == _get_activity_discounts_min(layer)

\* np.multiply(dists, activity_discounts) + mask, times scale^2 (one common
\* positive factor, the order of the entries is the program's)
search_mat(layer) ==
    [p \in DOMAIN layer.dists |->
        layer.dists[p] * get_activity_discounts(layer)[p]
        + layer.mask[p] * layer.scale * layer.scale]

\* if activities[i] < activities[j]: i, j = j, i
order_pair(layer, p) ==
    IF layer.activities[p[1]] < layer.activities[p[2]]
    THEN <<p[2], p[1]>> ELSE p

\* pruned_neurons.append(j); mask[j,:] = INF_DIST; mask[:,j] = INF_DIST
mark_pruned(layer, j) ==
    [layer EXCEPT !.pruned_neurons = Append(@, j),
                  !.mask = [q \in DOMAIN @ |->
                               IF q[1] = j \/ q[2] = j THEN INF_DIST ELSE @[q]]]

\* the mutant takes every sorted entry, pruned or not
eligible_any(layer, search) == DOMAIN search

\* entries the loop does not skip
eligible(layer, search) ==
    {p \in DOMAIN search : p[1] \notin Range(layer.pruned_neurons)
                           /\ p[2] \notin Range(layer.pruned_neurons)}

loop_done(to_delete, n) == Len(to_delete) >= n

RECURSIVE select_loop(_, _, _, _)
\* The loop over the argsort of search_mat.  Entries of equal value come in
\* an order the sort does not fix (quicksort): every order is an outcome.
\* The next entry taken is a least-valued one among those not skipped.
select_loop(layer, search, to_delete, n) ==
    IF loop_done(to_delete, n) \/ eligible(layer, search) = {}
    THEN {[layer |-> layer, to_delete |-> to_delete]}
    ELSE LET el == eligible(layer, search)
             firsts == {p \in el : \A q \in el : search[p] <= search[q]}
         IN UNION {select_loop(mark_pruned(layer, order_pair(layer, p)[2]),
                               search,
                               Append(to_delete, order_pair(layer, p)),
                               n) : p \in firsts}

-----------------------------------------------------------------------------
(* Compensation *)

\* one connection of one deleted neuron j
compensate_conn(params, layer, conn, j) ==
    LET mat == params[conn.mat_name]
        mat_j == j + ConnOffset(mat, conn)
    IN [params EXCEPT ![conn.mat_name] =
           IF conn.direction = "in" /\ layer.maxout
           THEN set_zero_in_mat(set_zero_in_mat(mat, conn.dim, mat_j * 2),
                                conn.dim, mat_j * 2 + 1)
           ELSE set_zero_in_mat(mat, conn.dim, mat_j)]

RECURSIVE compensate_conns(_, _, _, _)
\* for conn in layer.connections[1..c]
compensate_conns(params, layer, c, j) ==
    IF c = 0 THEN params
    ELSE compensate_conn(compensate_conns(params, layer, c - 1, j),
                         layer, layer.connections[c], j)

RECURSIVE compensate_pairs(_, _, _, _)
\* for i, j in to_delete[1..t]
compensate_pairs(to_delete, layer, params, t) ==
    IF t = 0 THEN params
    ELSE compensate_conns(compensate_pairs(to_delete, layer, params, t - 1),
                          layer, Len(layer.connections), to_delete[t][2])

_compensate_for_pruning_sum(to_delete, layer, params) ==
    compensate_pairs(to_delete, layer, params, Len(to_delete))

compensate_for_pruning(to_delete, layer, params) ==
    _compensate_for_pruning_sum(to_delete, layer, params)

-----------------------------------------------------------------------------
(* prune: the outcomes of one call *)

PruneResult(layer, params, n, to_delete, raised) ==
    [layer |-> layer, params |-> params, n_to_delete |-> n,
     to_delete |-> to_delete, raised |-> raised]

\* initialize_mask on dists = None and the in-place division of None raise
\* before anything is assigned
prune_raises(layer) ==
    layer.dists = None /\ (layer.mask = None \/ n_to_delete(layer) > 0)

prune(layer, params) ==
    IF prune_raises(layer)
    THEN {PruneResult(layer, params, 0, <<>>, TRUE)}
    ELSE LET ready == prepare(layer)
             n == n_to_delete(ready)
         IN IF n <= 0
            THEN {PruneResult(reset(ready), params, n, <<>>, FALSE)}
            ELSE LET norm == normalize(ready)
                 IN {PruneResult(sel.layer,
                                 compensate_for_pruning(sel.to_delete, sel.layer,
                                                        params),
                                 n, sel.to_delete, FALSE) :
                        sel \in select_loop(norm, search_mat(norm), <<>>, n)}

-----------------------------------------------------------------------------
(* sanity_check *)

\* index sets sanity_check reads in one connection's matrix
sanity_entries(layer, params, conn) ==
    LET mat == params[conn.mat_name]
        mat_idxs == {j + ConnOffset(mat, conn) : j \in Range(layer.pruned_neurons)}
        axis == IF Len(mat.shape) = 1 THEN 1 ELSE conn.dim + 1
    IN {p \in DOMAIN mat.val : p[axis] \in mat_idxs}

\* np.max of an empty selection raises
sanity_check_raises(layer) ==
    layer.connections # <<>> /\ layer.pruned_neurons = <<>>

\* geps, the maximum the check logs
sanity_check(layer, params) ==
    LET seen == UNION {{Abs(params[layer.connections[c].mat_name].val[p]) :
                            p \in sanity_entries(layer, params, layer.connections[c])} :
                       c \in 1..Len(layer.connections)}
    IN IF seen = {} THEN 0 ELSE CHOOSE m \in seen : \A v \in seen : v <= m

-----------------------------------------------------------------------------
(* Inputs: activation batches and layer layouts *)

ObsLinear(width) == [i \in 0..(width - 1) |-> i + 1]

ObsParity(width) == [i \in 0..(width - 1) |-> i % 2]

ObsTwin(width) == [i \in 0..(width - 1) |-> (i * i + 1) % 3]

ObsLarge(width) == [i \in 0..(width - 1) |-> 10 + 11 * i]

\* activation batches of a layer: sequences of observations
Activities(width) ==
    {<<ObsLinear(width)>>, <<ObsParity(width)>>, <<ObsTwin(width)>>,
     <<ObsLinear(width), ObsTwin(width)>>}
    \cup (IF width = 2 THEN {<<ObsLarge(width)>>} ELSE {})

\* layout of a recurrent layer: input weights (columns), output weights
\* (rows), a gate matrix shared with another block (second half), a bias
GruConnections(name) ==
    <<Connection("in", name \o ".W", 1, <<0, 1>>),
      Connection("out", name \o ".W_out", 0, <<0, 1>>),
      Connection("in", name \o ".W_gates", 1, <<1, 2>>),
      Connection("in", name \o ".b", 0, <<0, 1>>)>>

GruParams(name, width) ==
    (name \o ".W" :> Mat2(2, width)) @@ (name \o ".W_out" :> Mat2(width, 2))
    @@ (name \o ".W_gates" :> Mat2(2, 2 * width)) @@ (name \o ".b" :> Mat1(width))

\* layout of a maxout layer: two physical inputs per neuron
MaxoutConnections(name) ==
    <<Connection("in", name \o ".W", 1, <<0, 1>>),
      Connection("out", name \o ".W_out", 0, <<0, 1>>),
      Connection("in", name \o ".W_merge", 0, <<1, 4>>)>>

MaxoutParams(name, width) ==
    (name \o ".W" :> Mat2(2, 2 * width)) @@ (name \o ".W_out" :> Mat2(width, 2))
    @@ (name \o ".W_merge" :> Mat2(4 * width, 1))

NewLayer(name, width, trg_size, n_steps) ==
    PrunableLayer(name, width, trg_size, n_steps, name = "decmaxout",
                  IF name = "decmaxout" THEN MaxoutConnections(name)
                  ELSE GruConnections(name))

NewParams(name, width) ==
    IF name = "decmaxout" THEN MaxoutParams(name, width)
    ELSE GruParams(name, width)

\* <<name, width, target size, n_steps>> of the single layers of Spec
LayerChoices ==
    {<<"decgru", 3, 1, 1>>, <<"decgru", 3, 1, 3>>, <<"decgru", 3, 0, 2>>,
     <<"decgru", 2, 2, 1>>, <<"decgru", 2, 1, 1>>, <<"decgru", 4, 2, 1>>, <<"decgru", 10, 8, 1>>,
     <<"decmaxout", 3, 1, 3>>, <<"decmaxout", 2, 0, 1>>}

-----------------------------------------------------------------------------
(* The log of the last call *)

\* no getNgramProb call was made
NoQuery == [op |-> "", order |-> 0, ngrams |-> {}]

\* the decoder holds no history list
NoHeld == [has |-> FALSE, list |-> <<>>, same |-> FALSE]

\* no predictor is constructed while the training loop runs
NoPredictor ==
    /\ predictor = None
    /\ consumed = <<>>
    /\ query = NoQuery
    /\ held = NoHeld
    /\ plain = FALSE

NoLog ==
    [op |-> "init", layer |-> -1, raised |-> FALSE, n_to_delete |-> 0,
     to_delete |-> <<>>, geps |-> -1, n_obs |-> 0, dists_set |-> FALSE,
     mask_set |-> FALSE, reset_layer |-> -1]

PruneLog(op, l, layer, out) ==
    [NoLog EXCEPT !.op = op, !.layer = l, !.raised = out.raised,
                  !.n_to_delete = out.n_to_delete, !.to_delete = out.to_delete,
                  !.n_obs = layer.n_obs, !.dists_set = (layer.dists # None),
                  !.mask_set = (layer.mask # None)]

-----------------------------------------------------------------------------
(* Calls on a layer, in any order *)

Init ==
    /\ \E c \in LayerChoices :
          /\ prunable_layers = [l \in {0} |-> NewLayer(c[1], c[2], c[3], c[4])]
          /\ params_dict = NewParams(c[1], c[2])
    /\ n_batches = 0
    /\ next_layer_to_prune = -1
    /\ next_layer_to_reset = -1
    /\ prune_every = 1
    /\ prune_reset_every = 1
    /\ inputs = None
    /\ last = NoLog
    /\ prune_calls = [l \in DOMAIN prunable_layers |-> 0]
    /\ NoPredictor

RegisterActivities(l, activity) ==
    /\ prunable_layers[l].n_obs + Len(activity) <= MaxObs
    /\ prunable_layers' =
          [prunable_layers EXCEPT ![l] = register_activities(@, activity)]
    /\ last' = [NoLog EXCEPT !.op = "register_activities", !.layer = l]
    /\ UNCHANGED <<params_dict, driver_vars, prune_calls, ngram_vars>>

Prune(l) ==
    \E out \in prune(prunable_layers[l], params_dict) :
        /\ prunable_layers' = [prunable_layers EXCEPT ![l] = out.layer]
        /\ params_dict' = out.params
        /\ last' = PruneLog("prune", l, prunable_layers[l], out)
        /\ UNCHANGED <<driver_vars, prune_calls, ngram_vars>>

Reset(l) ==
    /\ prunable_layers' = [prunable_layers EXCEPT ![l] = reset(@)]
    /\ last' = [NoLog EXCEPT !.op = "reset", !.layer = l, !.reset_layer = l,
                             !.n_obs = prunable_layers[l].n_obs]
    /\ UNCHANGED <<params_dict, driver_vars, prune_calls, ngram_vars>>

SanityCheck(l) ==
    /\ last' = [NoLog EXCEPT
                  !.op = "sanity_check", !.layer = l,
                  !.raised = sanity_check_raises(prunable_layers[l]),
                  !.geps = IF sanity_check_raises(prunable_layers[l]) THEN -1
                           ELSE sanity_check(prunable_layers[l], params_dict)]
    /\ UNCHANGED <<prunable_layers, params_dict, driver_vars, prune_calls,
                   ngram_vars>>

RegisterStep ==
    \E l \in DOMAIN prunable_layers :
        \E activity \in Activities(prunable_layers[l].width) :
            RegisterActivities(l, activity)

PruneStep == \E l \in DOMAIN prunable_layers : Prune(l)

ResetStep == \E l \in DOMAIN prunable_layers : Reset(l)

SanityCheckStep == \E l \in DOMAIN prunable_layers : SanityCheck(l)

Next == RegisterStep \/ PruneStep \/ ResetStep \/ SanityCheckStep

Spec == Init /\ [][Next]_vars

-----------------------------------------------------------------------------
(* PruningGradientDescent: the training driver *)

\* layers of the driver's configurations: <<name, width, target size>>
DriverChoices ==
    {<< <<"decgru", 3, 1>> >>,
     << <<"decgru", 4, 1>> >>,
     << <<"encfwdgru", 3, 1>>, <<"decmaxout", 2, 1>> >>,
     << <<"decgru", 2, 1>>, <<"encbwdgru", 2, 2>> >>,
     << <<"encfwdgru", 2, 1>>, <<"encbwdgru", 3, 2>>, <<"decmaxout", 3, 1>> >>}

RECURSIVE DriverParams(_, _)
DriverParams(conf, k) ==
    IF k = 1 THEN NewParams(conf[1][1], conf[1][2])
    ELSE NewParams(conf[k][1], conf[k][2]) @@ DriverParams(conf, k - 1)

\* the names of the graph inputs that initialize infers
InputNames == <<"source", "target">>

\* the batches of the data stream: the sources a batch holds, the
\* activities the training function computes on it and the step its
\* gradient makes on every parameter
Batches ==
    [sources : {{"source", "target"}, {"source"}},
     activity : 1..2,
     update : 0..1]

\* self._validate_source_names(batch) raises unless the batch holds every
\* input; before initialize there is no self.inputs to look at
batch_rejected(names, batch) ==
    \/ names = None
    \/ \E i \in 1..Len(names) : names[i] \notin batch.sources

\* the activities the training function returns for a layer on a batch
TrainActivity(batch, width) ==
    IF batch.activity = 1 THEN <<ObsLinear(width)>> ELSE <<ObsTwin(width)>>

\* the updates of the training function: the gradient step on the shared
\* variables that params_dict holds
training_step(params, batch) ==
    [name \in DOMAIN params |->
        [params[name] EXCEPT
            !.val = [p \in DOMAIN params[name].val |->
                        params[name].val[p] + batch.update]]]

\* next_layer_to_prune = next_layer_to_reset = -len(self.prunable_layers)
initial_cursor(n_layers) == -n_layers

\* prune_reset_every if prune_reset_every > 0 else prune_every
reset_period(every, reset_every) == IF reset_every > 0 THEN reset_every ELSE every

DriverInit ==
    /\ \E conf \in DriverChoices, n_steps \in 1..3 :
          /\ prunable_layers =
                [l \in 0..(Len(conf) - 1) |->
                    NewLayer(conf[l + 1][1], conf[l + 1][2], conf[l + 1][3], n_steps)]
          /\ params_dict = DriverParams(conf, Len(conf))
          /\ next_layer_to_prune = initial_cursor(Len(conf))
          /\ next_layer_to_reset = initial_cursor(Len(conf))
    /\ \E every \in 1..2, reset_every \in 0..3 :
          /\ prune_every = every
          /\ prune_reset_every = reset_period(every, reset_every)
    /\ n_batches = 0
    /\ inputs = None
    /\ last = NoLog
    /\ prune_calls = [l \in DOMAIN prunable_layers |-> 0]
    /\ NoPredictor

\* the mutant registers nothing
register_none(layers, batch) == layers

\* for activity, layer in zip(activities, self.prunable_layers)
register_all(layers, batch) ==
    [l \in DOMAIN layers |->
        register_activities(layers[l], TrainActivity(batch, layers[l].width))]

\* n_batches % every == 0
event_due(count, every) == count % every = 0

\* the mutant stays on the layer it reached
cursor_stuck(cursor, n_layers) ==
    IF cursor + 1 >= 0 THEN cursor % n_layers ELSE cursor + 1

\* cursor += 1, and cursor %= n_layers once it is not negative
cursor_after(cursor, n_layers) ==
    IF cursor + 1 >= 0 THEN (cursor + 1) % n_layers ELSE cursor + 1

\* if cursor >= 0, tested after the increment
event_fires(cursor) == cursor + 1 >= 0

\* PruningGradientDescent.initialize: compiles the training function
InitializeAlgorithm ==
    /\ inputs' = InputNames
    /\ UNCHANGED <<prunable_layers, params_dict, n_batches, next_layer_to_prune,
                   next_layer_to_reset, prune_every, prune_reset_every, last,
                   prune_calls, ngram_vars>>

\* a batch that raises before the training function runs: it is counted and
\* nothing else happens
RejectBatch(batch) ==
    /\ batch_rejected(inputs, batch)
    /\ n_batches' = n_batches + 1
    /\ last' = [NoLog EXCEPT !.op = "process_batch", !.raised = TRUE]
    /\ UNCHANGED <<prunable_layers, params_dict, next_layer_to_prune,
                   next_layer_to_reset, prune_every, prune_reset_every, inputs,
                   prune_calls, ngram_vars>>

TrainBatch(batch) ==
    /\ ~batch_rejected(inputs, batch)
    /\ LET count == n_batches + 1
           n_layers == Cardinality(DOMAIN prunable_layers)
           trained == training_step(params_dict, batch)
           registered == register_all(prunable_layers, batch)
           prune_due == event_due(count, prune_every)
           do_prune == prune_due /\ event_fires(next_layer_to_prune)
           pl == cursor_after(next_layer_to_prune, n_layers)
       IN \E out \in (IF do_prune THEN prune(registered[pl], trained)
                      ELSE {PruneResult(None, trained, 0, <<>>, FALSE)}) :
            LET pruned == IF do_prune THEN [registered EXCEPT ![pl] = out.layer]
                          ELSE registered
                raised == do_prune
                          /\ (out.raised \/ sanity_check_raises(out.layer))
                reset_due == ~raised /\ event_due(count, prune_reset_every)
                do_reset == reset_due /\ event_fires(next_layer_to_reset)
                rl == cursor_after(next_layer_to_reset, n_layers)
            IN /\ n_batches' = count
               /\ next_layer_to_prune' =
                     IF prune_due THEN pl ELSE next_layer_to_prune
               /\ next_layer_to_reset' =
                     IF reset_due THEN rl ELSE next_layer_to_reset
               /\ prunable_layers' =
                     IF do_reset THEN [pruned EXCEPT ![rl] = reset(@)] ELSE pruned
               /\ params_dict' = out.params
               /\ last' =
                     IF do_prune
                     THEN [PruneLog("process_batch", pl, registered[pl], out) EXCEPT
                             !.raised = raised,
                             !.geps = IF raised THEN -1
                                      ELSE sanity_check(out.layer, out.params),
                             !.reset_layer = IF do_reset THEN rl ELSE -1]
                     ELSE [NoLog EXCEPT !.op = "process_batch",
                             !.reset_layer = IF do_reset THEN rl ELSE -1]
               /\ prune_calls' =
                     IF do_prune
                     THEN [prune_calls EXCEPT
                             ![pl] = Min(@ + 1, prunable_layers[pl].n_steps + 1)]
                     ELSE prune_calls
               /\ UNCHANGED <<prune_every, prune_reset_every, inputs, ngram_vars>>

ProcessBatch(batch) ==
    /\ n_batches < MaxBatches
    /\ (RejectBatch(batch) \/ TrainBatch(batch))

ProcessBatchStep == \E batch \in Batches : ProcessBatch(batch)

DriverNext == InitializeAlgorithm \/ ProcessBatchStep

DriverSpec == DriverInit /\ [][DriverNext]_vars

-----------------------------------------------------------------------------
(* The SRILM predictor (cam/sgnmt/predictors/ngram.py)                     *)
(*                                                                         *)
(* Words are word indices; the history holds their decimal strings.  The   *)
(* language model is the library's: of a getNgramProb call the model keeps *)
(* the n-gram string and the order it was asked with, not the score.       *)

\* utils.EOS_ID
EOS_ID == 2

\* the word indices the decoder hands over
Vocab == {EOS_ID, 7, 12}

Digit(d) ==
    CASE d = 0 -> "0" [] d = 1 -> "1" [] d = 2 -> "2" [] d = 3 -> "3"
      [] d = 4 -> "4" [] d = 5 -> "5" [] d = 6 -> "6" [] d = 7 -> "7"
      [] d = 8 -> "8" [] d = 9 -> "9"

\* str(word) of a non-negative int
RECURSIVE str(_)
str(word) ==
    IF word < 10 THEN Digit(word)
    ELSE str(word \div 10) \o Digit(word % 10)

\* ' '.join(words)
RECURSIVE join(_)
join(words) ==
    IF words = <<>> THEN ""
    ELSE IF Len(words) = 1 THEN words[1]
    ELSE words[1] \o " " \o join(Tail(words))

\* SRILMPredictor(path, ngram_order): the attributes set by __init__;
\* lm is the handle of initLM(ngram_order)
SRILMPredictor(ngram_order) ==
    [history_len |-> ngram_order - 1,
     lm |-> [order |-> ngram_order]]

\* ['<s>'] if self.history_len > 0 else []
start_history(self) == IF self.history_len > 0 THEN <<"<s>">> ELSE <<>>

initialize(self) ==
    [history_len |-> self.history_len,
     lm |-> self.lm,
     history |-> start_history(self)]

\* if len(self.history) >= self.history_len: self.history = self.history[1:]
shifted(self) ==
    IF Len(self.history) >= self.history_len
    THEN SubSeq(self.history, 2, Len(self.history))
    ELSE self.history

consume(self, word) ==
    [self EXCEPT !.history = Append(shifted(self), str(word))]

\* "</s>" if w == utils.EOS_ID else str(w)
token(w) == IF w = EOS_ID THEN "</s>" ELSE str(w)

\* the getNgramProb calls of predict_next(words)
predict_next(self, words) ==
    LET prefix == join(self.history) \o " "
        order == Len(self.history) + 1
    IN [op |-> "predict_next",
        order |-> order,
        ngrams |-> {prefix \o token(w) : w \in words}]

\* the getNgramProb call of get_unk_probability
get_unk_probability(self) ==
    [op |-> "get_unk_probability",
     order |-> Len(self.history) + 1,
     ngrams |-> {join(self.history) \o " <unk>"}]

\* self.history = state; the attribute is created if it is missing
set_state(self, state) ==
    [history_len |-> self.history_len,
     lm |-> self.lm,
     history |-> state]

\* the history attribute exists once initialize or set_state has run
HasHistory == "history" \in DOMAIN predictor

\* the lists a decoder passes to set_state besides one it got from get_state
StateChoices == {<<>>, <<"9">>, <<"5", "6", "7">>}

\* no training loop runs while the predictor decodes
NoPruning ==
    /\ prunable_layers = <<>>
    /\ params_dict = <<>>
    /\ n_batches = 0
    /\ next_layer_to_prune = -1
    /\ next_layer_to_reset = -1
    /\ prune_every = 1
    /\ prune_reset_every = 1
    /\ inputs = None
    /\ last = NoLog
    /\ prune_calls = <<>>

NgramInit ==
    /\ \E ngram_order \in 1..MaxOrder : predictor = SRILMPredictor(ngram_order)
    /\ consumed = <<>>
    /\ query = NoQuery
    /\ held = NoHeld
    /\ plain = FALSE
    /\ NoPruning

\* initialize binds a new list; the list the decoder holds is another object
Initialize ==
    /\ predictor' = initialize(predictor)
    /\ consumed' = <<>>
    /\ query' = [NoQuery EXCEPT !.op = "initialize"]
    /\ held' = [held EXCEPT !.same = FALSE]
    /\ plain' = TRUE
    /\ UNCHANGED pruning_vars

\* self.history[1:] is a new list, append works on the list in place: when
\* nothing is dropped the list the decoder holds grows as well
Consume ==
    /\ HasHistory
    /\ Len(consumed) < MaxConsumed
    /\ \E word \in Vocab :
          /\ predictor' = consume(predictor, word)
          /\ consumed' = Append(consumed, word)
    /\ query' = [NoQuery EXCEPT !.op = "consume"]
    /\ held' =
          IF Len(predictor.history) >= predictor.history_len
          THEN [held EXCEPT !.same = FALSE]
          ELSE IF held.same THEN [held EXCEPT !.list = predictor'.history]
          ELSE held
    /\ UNCHANGED <<plain, pruning_vars>>

PredictNext ==
    /\ HasHistory
    /\ \E words \in SUBSET Vocab : query' = predict_next(predictor, words)
    /\ UNCHANGED <<predictor, consumed, held, plain, pruning_vars>>

GetUnkProbability ==
    /\ HasHistory
    /\ query' = get_unk_probability(predictor)
    /\ UNCHANGED <<predictor, consumed, held, plain, pruning_vars>>

\* get_state returns the history list itself
GetState ==
    /\ HasHistory
    /\ held' = [has |-> TRUE, list |-> predictor.history, same |-> TRUE]
    /\ query' = [NoQuery EXCEPT !.op = "get_state"]
    /\ UNCHANGED <<predictor, consumed, plain, pruning_vars>>

\* set_state binds the list it is given, which the decoder still holds
SetState ==
    /\ \E state \in StateChoices \cup (IF held.has THEN {held.list} ELSE {}) :
          /\ predictor' = set_state(predictor, state)
          /\ held' = [has |-> TRUE, list |-> state, same |-> TRUE]
    /\ query' = [NoQuery EXCEPT !.op = "set_state"]
    /\ plain' = FALSE
    /\ UNCHANGED <<consumed, pruning_vars>>

NgramNext ==
    \/ Initialize
    \/ Consume
    \/ PredictNext
    \/ GetUnkProbability
    \/ GetState
    \/ SetState

NgramSpec == NgramInit /\ [][NgramNext]_vars

-----------------------------------------------------------------------------
(* Properties of a layer under calls in any order (Spec) *)

Layers == DOMAIN prunable_layers

\* the last call was a prune that reached the selection loop
PrunedSome == last.op = "prune" /\ ~last.raised /\ last.n_to_delete > 0

\* the last call was a prune that found nothing to delete
PrunedNothing == last.op = "prune" /\ ~last.raised /\ last.n_to_delete <= 0

\* C1: for a layer whose target size is at most its size, the pruned neurons
\* never number more than size - target size, and count_unpruned_neurons()
\* never drops below trg_size.
C1_PrunedWithinBudget ==
    \A l \in Layers :
        LET layer == prunable_layers[l]
        IN layer.trg_size <= layer.width =>
              /\ Len(layer.pruned_neurons) <= layer.width - layer.trg_size
              /\ layer.mask # None =>
                    /\ get_size(layer) = layer.width
                    /\ count_unpruned_neurons(layer) >= layer.trg_size

\* a layer pruned down to its target in two steps, and prune called again
C1_Witness ==
    /\ PrunedNothing
    /\ Len(prunable_layers[last.layer].pruned_neurons) >= 2
    /\ count_unpruned_neurons(prunable_layers[last.layer])
          = prunable_layers[last.layer].trg_size

\* C2: a prune call with n_to_delete > 0 appends exactly n_to_delete
\* neurons to pruned_neurons, all different and none pruned before, so
\* count_unpruned_neurons() decreases by exactly n_to_delete; a layer of
\* size 10 with target 8 and n_steps 1 has step size 3 and loses exactly 2.
C2_PruneDeletesExactly ==
    [][PrunedSome' =>
          LET l == last'.layer
              before == prunable_layers[l]
              after == prunable_layers'[l]
              n == last'.n_to_delete
          IN /\ n = Min(count_unpruned_neurons(prepare(before)) - before.trg_size,
                        after.step_size)
             /\ Len(after.pruned_neurons) = Len(before.pruned_neurons) + n
             /\ SubSeq(after.pruned_neurons, 1, Len(before.pruned_neurons))
                   = before.pruned_neurons
             /\ Cardinality(Range(after.pruned_neurons)) = Len(after.pruned_neurons)
             /\ Range(after.pruned_neurons) \subseteq 0..(after.width - 1)
             /\ count_unpruned_neurons(after)
                   = count_unpruned_neurons(prepare(before)) - n
             /\ (after.width = 10 /\ after.trg_size = 8 /\ after.n_steps = 1) =>
                   (after.step_size = 3 /\ n = 2)]_vars

\* the layer of size 10 and target 8 after its one pruning call
C2_Witness ==
    /\ PrunedSome
    /\ prunable_layers[last.layer].width = 10
    /\ last.n_to_delete = 2
    /\ count_unpruned_neurons(prunable_layers[last.layer]) = 8

\* indices along a connection's axis whose entries are all zero
ZeroedIdx(mat, conn) ==
    LET axis == IF Len(mat.shape) = 1 THEN 1 ELSE conn.dim + 1
    IN {k \in 0..(mat.shape[axis] - 1) :
           \A p \in DOMAIN mat.val : p[axis] = k => mat.val[p] = 0}

\* C3: for every layer and every connection, the entries sanity_check reads
\* (pruned index plus the connection's offset) are zero, and the maximum
\* sanity_check reports is 0.
C3_SanityCheckZero ==
    /\ \A l \in Layers :
          \A c \in 1..Len(prunable_layers[l].connections) :
             LET conn == prunable_layers[l].connections[c]
             IN \A p \in sanity_entries(prunable_layers[l], params_dict, conn) :
                   params_dict[conn.mat_name].val[p] = 0
    /\ (last.op = "sanity_check" /\ ~last.raised) => last.geps = 0

\* C4 as claimed: a prune call with n_to_delete <= 0 changes neither
\* pruned_neurons nor the mask nor any weight matrix, and resets the
\* accumulators.
C4_NoopPruneChangesNothing ==
    [][PrunedNothing' =>
          LET before == prunable_layers[last'.layer]
              after == prunable_layers'[last'.layer]
          IN /\ after.pruned_neurons = before.pruned_neurons
             /\ after.mask = before.mask
             /\ params_dict' = params_dict
             /\ after.dists = None /\ after.activities = None
             /\ after.n_obs = 0 /\ after.obs = <<>>]_vars

\* C4 amended: a prune call with n_to_delete <= 0 changes neither
\* pruned_neurons nor any weight matrix and resets the accumulators; the
\* mask and the step size are unchanged when the mask existed, and are
\* initialized by the call when it is the layer's first prune.
C4_NoopPruneKeepsPrunedAndWeights ==
    [][PrunedNothing' =>
          LET before == prunable_layers[last'.layer]
              after == prunable_layers'[last'.layer]
          IN /\ after.pruned_neurons = before.pruned_neurons
             /\ params_dict' = params_dict
             /\ after.dists = None /\ after.activities = None
             /\ after.n_obs = 0 /\ after.obs = <<>>
             /\ before.mask # None =>
                   after.mask = before.mask /\ after.step_size = before.step_size
             /\ before.mask = None =>
                   /\ after.mask = [p \in DOMAIN before.dists |->
                                       IF p[1] <= p[2] THEN INF_DIST ELSE 0]
                   /\ after.step_size >= 1]_vars

\* a pruned layer with accumulated observations, on which prune found
\* nothing more to delete
C4_Witness ==
    /\ PrunedNothing
    /\ last.mask_set /\ last.dists_set /\ last.n_obs >= 2
    /\ prunable_layers[last.layer].pruned_neurons # <<>>
    /\ prunable_layers[last.layer].obs = <<>>

\* C5: in a maxout layer the indices zeroed in an inbound connection are
\* exactly offset + 2j and offset + 2j + 1 for the pruned neurons j, and in
\* an outbound connection exactly offset + j.
C5_MaxoutZeroesOwnSlice ==
    \A l \in Layers :
        prunable_layers[l].maxout =>
           \A c \in 1..Len(prunable_layers[l].connections) :
              LET conn == prunable_layers[l].connections[c]
                  mat == params_dict[conn.mat_name]
                  off == ConnOffset(mat, conn)
                  pruned == Range(prunable_layers[l].pruned_neurons)
              IN ZeroedIdx(mat, conn) =
                    IF conn.direction = "in"
                    THEN {off + 2 * j : j \in pruned}
                         \cup {off + 2 * j + 1 : j \in pruned}
                    ELSE {off + j : j \in pruned}

\* C6: pruned_neurons only grows under register_activities, prune and reset,
\* and reset leaves pruned_neurons, the mask and the step size as they were
\* while it clears dists, activities, n_obs and the stored observations.
C6_PrunedOnlyGrows ==
    [][/\ \A l \in Layers :
             LET before == prunable_layers[l].pruned_neurons
                 after == prunable_layers'[l].pruned_neurons
             IN Len(before) <= Len(after)
                /\ SubSeq(after, 1, Len(before)) = before
       /\ last'.op = "reset" =>
             LET before == prunable_layers[last'.layer]
                 after == prunable_layers'[last'.layer]
             IN /\ after.pruned_neurons = before.pruned_neurons
                /\ after.mask = before.mask
                /\ after.step_size = before.step_size
                /\ after.dists = None /\ after.activities = None
                /\ after.n_obs = 0 /\ after.obs = <<>>
                /\ params_dict' = params_dict]_vars

\* a reset of a layer that has pruned neurons and held observations
C6_Witness ==
    /\ last.op = "reset" /\ last.n_obs >= 1
    /\ prunable_layers[last.layer].pruned_neurons # <<>>
    /\ prunable_layers[last.layer].mask # None
    /\ prunable_layers[last.layer].dists = None

RECURSIVE SumActivities(_, _)
\* per-neuron squared activity summed over the stored batches obs[1..k]
SumActivities(obs, k) ==
    IF k = 1 THEN pt_sq_norms(obs[1])
    ELSE [i \in DOMAIN obs[1][1] |->
             SumActivities(obs, k - 1)[i] + pt_sq_norms(obs[k])[i]]

RECURSIVE SumDists(_, _)
\* pairwise squared distances summed over the stored batches obs[1..k]
SumDists(obs, k) ==
    IF k = 1 THEN dists_sq(obs[1])
    ELSE [p \in DOMAIN dists_sq(obs[1]) |->
             SumDists(obs, k - 1)[p] + dists_sq(obs[k])[p]]

\* observations in the stored batches
CountObs(obs) == SumTo([k \in 1..Len(obs) |-> Len(obs[k])], Len(obs))

\* C9: the activities and distances a prune selects with are the sums of
\* the batches registered since the last reset divided by the number of
\* observations registered since then (entry / scale = sum / count).
C9_SelectsOnRunningMeans ==
    PrunedSome =>
       LET layer == prunable_layers[last.layer]
           count == CountObs(layer.obs)
       IN /\ count = layer.n_obs
          /\ \A i \in DOMAIN layer.activities :
                layer.activities[i] * count
                   = SumActivities(layer.obs, Len(layer.obs))[i] * layer.scale
          /\ \A p \in DOMAIN layer.dists :
                layer.dists[p] * count
                   = SumDists(layer.obs, Len(layer.obs))[p] * layer.scale

\* C10: every (survivor, deleted) pair of a prune call is two different
\* neurons, neither pruned when the pair was picked, and the deleted one's
\* activity is at most the survivor's.
C10_PairsAreTwoLiveNeurons ==
    PrunedSome =>
       LET layer == prunable_layers[last.layer]
           base == Len(layer.pruned_neurons) - Len(last.to_delete)
       IN \A k \in 1..Len(last.to_delete) :
             LET pair == last.to_delete[k]
                 gone == Range(SubSeq(layer.pruned_neurons, 1, base + k - 1))
             IN /\ pair[1] # pair[2]
                /\ pair[1] \notin gone /\ pair[2] \notin gone
                /\ layer.activities[pair[2]] <= layer.activities[pair[1]]

-----------------------------------------------------------------------------
(* Properties of the driver (DriverSpec) *)

NumLayers == Cardinality(Layers)

Processed == last.op = "process_batch"

\* the batch raised before the training function ran
Rejected == Processed /\ last.raised /\ last.layer = -1

\* the batch went through the training function
Trained == Processed /\ ~Rejected

\* C7 as claimed: every batch whose count is a multiple of prune_every
\* prunes a layer, and every batch whose count is a multiple of
\* prune_reset_every resets a layer.
C7_EveryDueBatchActs ==
    Processed =>
       /\ n_batches % prune_every = 0 => last.layer \in Layers
       /\ n_batches % prune_reset_every = 0 => last.reset_layer \in Layers

\* one event of a cursor on a batch that went through the training
\* function: a batch that is not due leaves the cursor alone; a due batch
\* moves a cursor below -1 up by one and visits no layer; any other due
\* batch visits the layer after the one visited last, layer 0 after the
\* last layer and at the first visit
EventOf(due, cursor, cursor_next, layer) ==
    IF ~due THEN cursor_next = cursor /\ layer = -1
    ELSE IF cursor < -1 THEN cursor_next = cursor + 1 /\ layer = -1
    ELSE cursor_next = (cursor + 1) % NumLayers /\ layer = cursor_next

\* C7 amended: the cursors start at -L.  A batch that raises before the
\* training function runs (it lacks an input source, or initialize has not
\* run) is counted and prunes nothing, resets nothing and moves no cursor.
\* Of the other batches whose count is a multiple of prune_every the first
\* L - 1 prune nothing and every later one prunes exactly one layer, the
\* layers taken in the cyclic order 0, 1, ..., L-1, 0, ...; no other batch
\* prunes.  The same holds of resets, with prune_reset_every and a cursor
\* of its own, except that a batch on which the sanity_check after prune
\* raises ends before its reset step and leaves the reset cursor alone.
C7_RoundRobinAfterWarmUp ==
    [][(Processed' /\ n_batches' = n_batches + 1) =>
          /\ n_batches = 0 =>
                /\ next_layer_to_prune = -NumLayers
                /\ next_layer_to_reset = -NumLayers
          /\ IF Rejected'
             THEN /\ last'.reset_layer = -1
                  /\ UNCHANGED <<next_layer_to_prune, next_layer_to_reset,
                                 prunable_layers, params_dict>>
             ELSE /\ EventOf(n_batches' % prune_every = 0,
                             next_layer_to_prune, next_layer_to_prune',
                             last'.layer)
                  /\ EventOf(n_batches' % prune_reset_every = 0
                                /\ ~last'.raised,
                             next_layer_to_reset, next_layer_to_reset',
                             last'.reset_layer)]_vars

\* the prune cursor has come round to layer 0 again (the layer holds the
\* neurons an earlier visit pruned and this visit found nothing more to
\* delete) while the reset cursor, on the same batch, is at another layer
C7_Witness ==
    /\ Trained /\ NumLayers >= 2
    /\ last.layer = 0
    /\ prune_calls[0] >= 2
    /\ last.reset_layer \in Layers /\ last.reset_layer # last.layer

\* C8: whenever process_batch calls prune on a layer, the layer's dists and
\* activities are set and n_obs > 0.
C8_PruneSeesObservations ==
    (Processed /\ last.layer \in Layers) =>
        last.dists_set /\ last.n_obs > 0 /\ ~(last.raised /\ last.n_to_delete > 0)

\* prune called on a layer that an earlier batch had reset: it holds the
\* one batch registered since
C8_Witness ==
    /\ Processed /\ last.layer \in Layers
    /\ n_batches >= 3
    /\ last.n_obs = 1
    /\ last.n_to_delete > 0

\* neurons of layer l not pruned (the mask need not exist yet)
Unpruned(layer) == layer.width - Len(layer.pruned_neurons)

\* C11: a layer with size >= target size reaches its target size exactly
\* within n_steps prune calls made with observations; every later prune
\* call deletes nothing, leaves the weights as the training step of its
\* batch left them and resets the accumulators; the step size set by the
\* first prune call never changes.
C11_TargetWithinNSteps ==
    [][(Trained' /\ n_batches' = n_batches + 1) =>
          /\ \A l \in Layers :
                LET before == prunable_layers[l]
                    after == prunable_layers'[l]
                IN /\ Unpruned(after) >= after.trg_size
                   /\ prune_calls'[l] >= after.n_steps =>
                         Unpruned(after) = after.trg_size
                   /\ before.mask # None =>
                         /\ after.mask # None
                         /\ after.step_size = before.step_size
                   /\ after.mask # None =>
                         after.step_size =
                            (after.width - after.trg_size) \div after.n_steps + 1
          /\ (last'.layer \in Layers
              /\ prune_calls'[last'.layer]
                    > prunable_layers[last'.layer].n_steps) =>
                /\ last'.n_to_delete <= 0 /\ last'.to_delete = <<>>
                /\ \E batch \in Batches :
                      params_dict' = training_step(params_dict, batch)
                /\ prunable_layers'[last'.layer] =
                      reset(prunable_layers[last'.layer])]_vars

\* a layer of size 4 and target 1 with n_steps = 2 (step size 2): the second
\* call reached the target, the third call found nothing to delete
C11_Witness ==
    /\ Processed /\ last.layer \in Layers
    /\ prunable_layers[last.layer].width - prunable_layers[last.layer].trg_size = 3
    /\ prunable_layers[last.layer].n_steps = 2
    /\ prunable_layers[last.layer].step_size = 2
    /\ prune_calls[last.layer] = 3
    /\ last.n_to_delete <= 0
    /\ Unpruned(prunable_layers[last.layer]) = 1
    /\ prunable_layers[last.layer].dists = None

-----------------------------------------------------------------------------
(* The predictor's history *)

\* the decimal strings of the words
RECURSIVE strs(_)
strs(words) ==
    IF words = <<>> THEN <<>> ELSE <<str(words[1])>> \o strs(Tail(words))

\* the n most recent of the consumed words, after '<s>' while fewer than n
\* words were consumed
RecentWords(words, n) ==
    IF Len(words) < n THEN <<"<s>">> \o strs(words)
    ELSE SubSeq(strs(words), Len(words) - n + 1, Len(words))

\* C12: for every ngram_order >= 1, after initialize and any consume calls
\* (no set_state in between)
\* the history holds at most ngram_order - 1 words, they are the most
\* recently consumed words (after '<s>' while fewer than ngram_order - 1
\* words were consumed), and predict_next asks for no n-gram of an order
\* above ngram_order.
C12_HistoryWithinOrder ==
    plain =>
        /\ Len(predictor.history) <= predictor.lm.order - 1
        /\ predictor.history = RecentWords(consumed, predictor.lm.order - 1)
        /\ query.op = "predict_next" => query.order <= predictor.lm.order

====
